---- MODULE Spec2Model ----
(***************************************************************************)
(* A state-machine model of the Flask application in src/app.py: the       *)
(* session / cookie based authentication layer and the CRUD handlers for   *)
(* Users, Mods, Records and Comments.                                      *)
(*                                                                         *)
(* The relational layer (models.py: the Users, Mods, Records and Comments  *)
(* tables, Users.signup and Users.authenticate) is not part of src/; it is *)
(* modelled from the written specification and kept in operators of its    *)
(* own (UsersSignup, UsersAuthenticate, ModsInsert, RecordsInsert, ...).   *)
(***************************************************************************)
EXTENDS Integers, Sequences, FiniteSets, TLC

\* ------------------------------------------------------------------ bounds

\* Users rows the model lets exist (one more than there are usernames, so
\* that a duplicate username would fit if the store accepted it).
MaxUsers == 3
\* Mods rows ever created (ids are handed out 1..MaxModId, never reused).
MaxModId == 2
\* Records rows ever created (ids 1..MaxRecordId, never reused).
MaxRecordId == 2
\* Comments rows ever created.
MaxComments == 1

\* ------------------------------------------------------------ input domains

Clients == {"c1", "c2"}
Usernames == {"alice", "bob"}
Passwords == {"pw1"}
LoginPasswords == Passwords \cup {"wrong"}
RegisterEmails == {"e1"}
EditEmails == {"e1", "e2"}
\* "" is an empty form field.
ImageUrls == {"", "u1"}
RegisterImageUrls == {""}
Reviews == {"great"}
CommentTexts == {"hi"}
CommentTargets == {1}
\* The one client of the specifications that serve requests one at a time.
Visitor == {"c1"}
\* and the one account it registers.
Member == {"alice"}
UserIds == 1..MaxUsers
ModIds == 1..MaxModId
RecordIds == 1..MaxRecordId

\* ------------------------------------------------------- program constants

CURR_USER_KEY == "current_user"
\* Users.image_url.default.arg, the placeholder avatar.
DefaultImageUrl == "default.png"

VARIABLES
    users,               \* the Users table: sequence of rows, row i has id i
    mods,                \* the Mods table: set of rows
    records,             \* the Records table: set of rows
    comments,            \* the Comments table: sequence of rows
    nextModId,           \* the Mods id sequence
    nextRecordId,        \* the Records id sequence
    session,             \* per client: Flask's signed session cookie (a dict)
    cookies,             \* per client: the plain cookies 'user' and 'password'
    got_first_request,   \* has this server process handled a request yet
    pending,             \* per client: a request between its query and its commit
    resp                 \* the last response sent

vars == <<users, mods, records, comments, nextModId, nextRecordId,
          session, cookies, got_first_request, pending, resp>>

db == <<users, mods, records, comments, nextModId, nextRecordId>>

\* --------------------------------------------------------------- dictionaries

EmptyDict == [k \in {} |-> 0]

DictSet(d, k, v) == [x \in (DOMAIN d) \cup {k} |-> IF x = k THEN v ELSE d[x]]

DictDel(d, k) == [x \in (DOMAIN d) \ {k} |-> d[x]]

NoRequest == [op |-> "none", user_id |-> 0, arg |-> 0]

\* The response of a handler: what the client can observe of it, and g.user.
\* arg is the id in the request's path (or posted body), id the id the response
\* carries in its body or in its redirect location.
Response(op, c, g, arg, kind, flash, status, loc, id) ==
    [op |-> op, client |-> c, g_user |-> g, arg |-> arg, kind |-> kind, flash |-> flash,
     status |-> status, location |-> loc, id |-> id]

\* ------------------------------------------------------------ the Users table

\* The stored one-way hash of a raw password.
PasswordHash(pw) == <<"hash", pw>>

UserByName(us, username) ==
    IF \E i \in 1..Len(us) : us[i].username = username
    THEN CHOOSE i \in 1..Len(us) :
             /\ us[i].username = username
             /\ \A j \in 1..(i - 1) : us[j].username # username
    ELSE 0

\* Users.query.get(id): the id of the row, 0 for None.
UserById(us, id) == IF id \in 1..Len(us) THEN id ELSE 0

\* Users.signup followed by db.session.commit(): the unique key on username
\* makes the commit raise IntegrityError and store nothing.
UsersSignup(us, username, email, password, image_url) ==
    IF UserByName(us, username) # 0
    THEN [ok |-> FALSE, users |-> us, id |-> 0]
    ELSE [ok |-> TRUE,
          users |-> Append(us, [username |-> username,
                                password |-> PasswordHash(password),
                                email |-> email,
                                image_url |-> image_url]),
          id |-> Len(us) + 1]

\* Users.authenticate: the id of the user, 0 when the username is unknown or
\* the password does not verify against the stored hash.
UsersAuthenticate(us, username, password) ==
    LET u == UserByName(us, username)
    IN  IF u # 0 /\ us[u].password = PasswordHash(password) THEN u ELSE 0

\* ------------------------------------------------------------------ sessions

\* do_login with the assignment lost
do_login_unbound(sess, user_id) == sess

do_login(sess, user_id) == DictSet(sess, CURR_USER_KEY, user_id)

do_logout(sess) ==
    IF CURR_USER_KEY \in DOMAIN sess THEN DictDel(sess, CURR_USER_KEY) ELSE sess

\* 'user' in request.cookies: register and login turn such a request away
already_logged_in_never(ck) == FALSE

already_logged_in(ck) == "user" \in DOMAIN ck

\* logout that forgets response.delete_cookie('user')
delete_cookies_keeps_user(ck) == DictDel(ck, "password")

\* response.delete_cookie('user'); response.delete_cookie('password')
delete_cookies(ck) == DictDel(DictDel(ck, "user"), "password")

\* @app.before_first_request
check_cookies(sess, ck) ==
    IF "user" \in DOMAIN ck
    THEN LET user == UserByName(users, ck["user"])
         IN  IF user # 0 THEN do_login(sess, user) ELSE sess
    ELSE do_logout(sess)

\* @app.before_request: g.user (0 for None)
global_user(sess) ==
    IF CURR_USER_KEY \in DOMAIN sess THEN UserById(users, sess[CURR_USER_KEY]) ELSE 0

\* The session of client c's request once the hooks have run: check_cookies
\* runs on the first request this process handles, and on no other.
SessionAfterHooks(c) ==
    IF got_first_request THEN session[c] ELSE check_cookies(session[c], cookies[c])

Idle(c) == pending[c].op = "none"

\* ------------------------------------------------------------------- Init

Init ==
    /\ users = <<>>
    /\ mods = {}
    /\ records = {}
    /\ comments = <<>>
    /\ nextModId = 1
    /\ nextRecordId = 1
    /\ session = [c \in Clients |-> EmptyDict]
    /\ cookies = [c \in Clients |-> EmptyDict]
    /\ got_first_request = FALSE
    /\ pending = [c \in Clients |-> NoRequest]
    /\ resp = Response("none", "c1", 0, 0, "none", "", "", "", 0)

\* ---------------------------------------------------------- authentication

\* POST/GET /register
register(c, username, email, password, image_url, valid) ==
    LET sess == SessionAfterHooks(c)
        g == global_user(sess)
        su == UsersSignup(users, username, email, password,
                          IF image_url # "" THEN image_url ELSE DefaultImageUrl)
    IN  /\ Idle(c)
        /\ got_first_request' = TRUE
        /\ UNCHANGED <<mods, records, comments, nextModId, nextRecordId, pending>>
        /\ IF already_logged_in(cookies[c])
           THEN /\ resp' = Response("register", c, g, 0, "redirect", "", "", "/search", 0)
                /\ session' = [session EXCEPT ![c] = sess]
                /\ UNCHANGED <<users, cookies>>
           ELSE IF ~valid
           THEN /\ resp' = Response("register", c, g, 0, "page", "", "", "register.html", 0)
                /\ session' = [session EXCEPT ![c] = sess]
                /\ UNCHANGED <<users, cookies>>
           ELSE IF su.ok
           THEN /\ Len(users) < MaxUsers
                /\ users' = su.users
                /\ session' = [session EXCEPT ![c] = do_login(sess, su.id)]
                /\ cookies' = [cookies EXCEPT ![c] =
                       DictSet(DictSet(cookies[c], "user", su.users[su.id].username),
                               "password", su.users[su.id].password)]
                /\ resp' = Response("register", c, g, 0, "redirect", "", "", "/search", su.id)
           ELSE /\ resp' = Response("register", c, g, 0, "page", "Username already taken",
                                    "", "register.html", 0)
                /\ session' = [session EXCEPT ![c] = sess]
                /\ UNCHANGED <<users, cookies>>

\* POST/GET /login
login(c, username, password, valid) ==
    LET sess == SessionAfterHooks(c)
        g == global_user(sess)
        user == UsersAuthenticate(users, username, password)
    IN  /\ Idle(c)
        /\ got_first_request' = TRUE
        /\ UNCHANGED <<db, pending>>
        /\ IF already_logged_in(cookies[c])
           THEN /\ resp' = Response("login", c, g, 0, "redirect", "", "", "/search", 0)
                /\ session' = [session EXCEPT ![c] = sess]
                /\ UNCHANGED cookies
           ELSE IF valid /\ user # 0
           THEN /\ session' = [session EXCEPT ![c] = do_login(sess, user)]
                /\ cookies' = [cookies EXCEPT ![c] =
                       DictSet(DictSet(cookies[c], "user", users[user].username),
                               "password", users[user].password)]
                /\ resp' = Response("login", c, g, 0,
                                    "redirect", "Welcome", "", "/search", user)
           ELSE /\ resp' = Response("login", c, g, 0, "page",
                                    IF valid THEN "Invalid credentials." ELSE "",
                                    "", "login.html", 0)
                /\ session' = [session EXCEPT ![c] = sess]
                /\ UNCHANGED cookies

\* GET /logout
logout(c) ==
    LET sess == SessionAfterHooks(c)
        g == global_user(sess)
    IN  /\ Idle(c)
        /\ got_first_request' = TRUE
        /\ UNCHANGED <<db, pending>>
        /\ session' = [session EXCEPT ![c] = do_logout(sess)]
        /\ cookies' = [cookies EXCEPT ![c] = delete_cookies(cookies[c])]
        /\ resp' = Response("logout", c, g, 0, "redirect",
                            "You have been successfully logged out.", "", "referrer", 0)

\* GET /api/login_status
login_status(c) ==
    LET sess == SessionAfterHooks(c)
        g == global_user(sess)
    IN  /\ Idle(c)
        /\ got_first_request' = TRUE
        /\ UNCHANGED <<db, pending, cookies>>
        /\ session' = [session EXCEPT ![c] = sess]
        /\ resp' = Response("login_status", c, g, 0, "json", "",
                            IF CURR_USER_KEY \in DOMAIN sess THEN "True" ELSE "False",
                            "", 0)

\* POST/GET /users/<user_id>/edit
edit_user(c, user_id, email, image_url, valid) ==
    LET sess == SessionAfterHooks(c)
        g == global_user(sess)
        \* line 344-346: the mismatch branch flashes, builds a redirect, drops it
        \* and falls through
        flash == IF g # user_id THEN "Unauthorized access." ELSE ""
    IN  /\ Idle(c)
        /\ got_first_request' = TRUE
        /\ session' = [session EXCEPT ![c] = sess]
        /\ UNCHANGED <<mods, records, comments, nextModId, nextRecordId, pending, cookies>>
        /\ IF g = 0
           THEN /\ resp' = Response("edit_user", c, g, user_id,
                                    "redirect", "Unauthorized access.",
                                    "", "/users", user_id)
                /\ UNCHANGED users
           ELSE IF UserById(users, user_id) = 0
           THEN /\ resp' = Response("edit_user", c, g, user_id,
                                    "error", flash, "404", "", user_id)
                /\ UNCHANGED users
           ELSE IF ~valid
           THEN /\ resp' = Response("edit_user", c, g, user_id,
                                    "page", flash, "", "user_edit.html",
                                    user_id)
                /\ UNCHANGED users
           ELSE IF image_url = ""
           \* Users.image_url.default.args: no such attribute, the request dies
           \* before the commit
           THEN /\ resp' = Response("edit_user", c, g, user_id,
                                    "error", flash, "500", "", user_id)
                /\ UNCHANGED users
           ELSE /\ users' = [users EXCEPT ![user_id].email = email,
                                          ![user_id].image_url = image_url]
                /\ resp' = Response("edit_user", c, g, user_id, "redirect", flash, "", "/users",
                                    user_id)

\* ------------------------------------------------------------------- Mods

\* The search results a client may post to /api/add_mod. 'dir' is a string,
\* kept as its characters; 'rating' and 'votes' are optional keys.
ModJson ==
    << [id |-> 1, dir |-> <<"l", "v", "/", "d">>, rating |-> 4, votes |-> 9],
       [id |-> 2, dir |-> <<"m">>] >>

\* str.partition(sep)[0]: the text before the first sep, all of it without one
RECURSIVE PartitionHead(_, _)
PartitionHead(str, sep) ==
    IF str = <<>> \/ Head(str) = sep
    THEN <<>>
    ELSE <<Head(str)>> \o PartitionHead(Tail(str), sep)

create_mod(m_json) ==
    [file_id |-> m_json.id,
     category |-> PartitionHead(m_json.dir, "/"),
     rating |-> IF "rating" \in DOMAIN m_json THEN m_json.rating ELSE 0,
     rating_count |-> IF "votes" \in DOMAIN m_json THEN m_json.votes ELSE 0]

\* Mods.query.filter_by(file_id=...).first(): the id of the row, 0 for None
ModByFileId(ms, file_id) ==
    IF \E m \in ms : m.file_id = file_id
    THEN (CHOOSE m \in ms : m.file_id = file_id).id
    ELSE 0

ModExists(ms, mod_id) == \E m \in ms : m.id = mod_id

\* the query made by primary key: Mods.query.get(mod_data['id'])
mod_check_by_id(ms, m_json) == IF ModExists(ms, m_json.id) THEN m_json.id ELSE 0

\* mod_check = Mods.query.filter_by(file_id=mod_data['id']).first()
mod_check(ms, m_json) == ModByFileId(ms, m_json.id)

\* db.session.add(mod); db.session.commit(): the unique key on file_id makes
\* the commit raise IntegrityError and store nothing.
ModsInsert(ms, id, mod) ==
    IF ModByFileId(ms, mod.file_id) # 0
    THEN [ok |-> FALSE, mods |-> ms]
    ELSE [ok |-> TRUE,
          mods |-> ms \cup {[id |-> id, file_id |-> mod.file_id, category |-> mod.category,
                            rating |-> mod.rating, rating_count |-> mod.rating_count]}]

PendingOps(op) == Cardinality({c \in Clients : pending[c].op = op})

\* POST /api/add_mod, up to the query for an existing row
add_mod(c, k) ==
    LET sess == SessionAfterHooks(c)
        g == global_user(sess)
        found == mod_check(mods, ModJson[k])
    IN  /\ Idle(c)
        /\ got_first_request' = TRUE
        /\ session' = [session EXCEPT ![c] = sess]
        /\ UNCHANGED <<db, cookies>>
        /\ IF g = 0
           THEN /\ resp' = Response("add_mod", c, g, ModJson[k].id,
                                    "json", "Please login to add a mod.",
                                    "Unauthorized access.", "", 0)
                /\ UNCHANGED pending
           ELSE IF found # 0
           THEN /\ resp' = Response("add_mod", c, g, ModJson[k].id,
                                    "json", "", "Already pulled.", "",
                                    found)
                /\ UNCHANGED pending
           ELSE /\ nextModId + PendingOps("add_mod") <= MaxModId
                /\ pending' = [pending EXCEPT ![c] =
                                   [op |-> "add_mod", user_id |-> g, arg |-> k]]
                /\ UNCHANGED resp

\* POST /api/add_mod, from create_mod to the response
add_mod_commit(c) ==
    LET ins == ModsInsert(mods, nextModId, create_mod(ModJson[pending[c].arg]))
    IN  /\ pending[c].op = "add_mod"
        /\ pending' = [pending EXCEPT ![c] = NoRequest]
        /\ UNCHANGED <<users, records, comments, nextRecordId, session, cookies,
                       got_first_request>>
        /\ IF ins.ok
           THEN /\ mods' = ins.mods
                /\ nextModId' = nextModId + 1
                /\ resp' = Response("add_mod", c, pending[c].user_id, ModJson[pending[c].arg].id,
                                    "json", "", "Pulled!",
                                    "", nextModId)
           ELSE /\ UNCHANGED <<mods, nextModId>>
                /\ resp' = Response("add_mod", c, pending[c].user_id, ModJson[pending[c].arg].id,
                                    "error", "", "500",
                                    "", 0)

\* POST /mods/<mod_id>/delete
delete_mod(c, mod_id) ==
    LET sess == SessionAfterHooks(c)
        g == global_user(sess)
    IN  /\ Idle(c)
        /\ got_first_request' = TRUE
        /\ session' = [session EXCEPT ![c] = sess]
        /\ UNCHANGED <<users, records, comments, nextModId, nextRecordId, pending, cookies>>
        /\ IF g # 0
           THEN /\ mods' = {m \in mods : m.id # mod_id}
                /\ resp' = Response("delete_mod", c, g, mod_id, "redirect",
                                    "Mod successfully removed.", "", "/mods", 0)
           ELSE /\ UNCHANGED mods
                /\ resp' = Response("delete_mod", c, g, mod_id, "redirect", "", "", "/mods", 0)

\* ---------------------------------------------------------------- Records

RecordById(rs, record_id) ==
    IF \E r \in rs : r.id = record_id
    THEN CHOOSE r \in rs : r.id = record_id
    ELSE [id |-> 0, user_id |-> 0, mod_id |-> 0, user_review |-> ""]

\* the redirect built from the record's own id
record_mod_id_is_record_id(rs, record_id) == record_id

\* mod_id = Records.query.filter_by(id=record_id).first().mod_id
record_mod_id(rs, record_id) == RecordById(rs, record_id).mod_id

\* db.session.add(record); db.session.commit(): the unique key on
\* (user_id, mod_id) and the reference to an existing Mod make the commit
\* raise IntegrityError and store nothing.
RecordsInsert(rs, ms, id, user_id, mod_id) ==
    IF (\E r \in rs : r.user_id = user_id /\ r.mod_id = mod_id) \/ ~ModExists(ms, mod_id)
    THEN [ok |-> FALSE, records |-> rs]
    ELSE [ok |-> TRUE,
          records |-> rs \cup {[id |-> id, user_id |-> user_id, mod_id |-> mod_id,
                                user_review |-> ""]}]

\* The handlers that attach a Record, up to the construction of the row
AttachBegin(op, c, mod_id, refusal) ==
    LET sess == SessionAfterHooks(c)
        g == global_user(sess)
    IN  /\ Idle(c)
        /\ got_first_request' = TRUE
        /\ session' = [session EXCEPT ![c] = sess]
        /\ UNCHANGED <<db, cookies>>
        /\ IF g # 0
           THEN /\ nextRecordId + PendingOps("add_record") + PendingOps("get_mod")
                       <= MaxRecordId
                /\ pending' = [pending EXCEPT ![c] =
                                   [op |-> op, user_id |-> g, arg |-> mod_id]]
                /\ UNCHANGED resp
           ELSE /\ UNCHANGED pending
                /\ resp' = refusal

\* POST /api/add_record/<mod_id>
add_record(c, mod_id) ==
    AttachBegin("add_record", c, mod_id,
                Response("add_record", c, 0, mod_id,
                         "json", "", "Not logged in.", "", 0))

\* add_record without its try/except: the IntegrityError goes unanswered
add_record_commit_uncaught(c) ==
    LET ins == RecordsInsert(records, mods, nextRecordId, pending[c].user_id, pending[c].arg)
    IN  /\ pending[c].op = "add_record"
        /\ pending' = [pending EXCEPT ![c] = NoRequest]
        /\ UNCHANGED <<users, mods, comments, nextModId, session, cookies,
                       got_first_request>>
        /\ IF ins.ok
           THEN /\ records' = ins.records
                /\ nextRecordId' = nextRecordId + 1
                /\ resp' = Response("add_record", c, pending[c].user_id, pending[c].arg,
                                    "json", "",
                                    "Added!", "", nextRecordId)
           ELSE /\ UNCHANGED <<records, nextRecordId>>
                /\ resp' = Response("add_record", c, pending[c].user_id, pending[c].arg,
                                    "error", "",
                                    "500", "", 0)

\* POST /api/add_record/<mod_id>, the commit and the response
add_record_commit(c) ==
    LET ins == RecordsInsert(records, mods, nextRecordId, pending[c].user_id, pending[c].arg)
    IN  /\ pending[c].op = "add_record"
        /\ pending' = [pending EXCEPT ![c] = NoRequest]
        /\ UNCHANGED <<users, mods, comments, nextModId, session, cookies,
                       got_first_request>>
        /\ IF ins.ok
           THEN /\ records' = ins.records
                /\ nextRecordId' = nextRecordId + 1
                /\ resp' = Response("add_record", c, pending[c].user_id, pending[c].arg,
                                    "json", "",
                                    "Added!", "", nextRecordId)
           ELSE /\ UNCHANGED <<records, nextRecordId>>
                /\ resp' = Response("add_record", c, pending[c].user_id, pending[c].arg,
                                    "json", "",
                                    "Already exists.", "", 0)

\* GET/POST /mods/<mod_id>
get_mod(c, mod_id, post) ==
    IF post
    THEN AttachBegin("get_mod", c, mod_id,
                     Response("get_mod", c, 0, mod_id,
                              "page", "", "", "mod.html", 0))
    ELSE /\ Idle(c)
         /\ got_first_request' = TRUE
         /\ session' = [session EXCEPT ![c] = SessionAfterHooks(c)]
         /\ UNCHANGED <<db, cookies, pending>>
         /\ resp' = Response("get_mod", c, global_user(SessionAfterHooks(c)), mod_id,
                             "page", "", "",
                             "mod.html", 0)

\* POST /mods/<mod_id>, the commit and the response
get_mod_commit(c) ==
    LET ins == RecordsInsert(records, mods, nextRecordId, pending[c].user_id, pending[c].arg)
    IN  /\ pending[c].op = "get_mod"
        /\ pending' = [pending EXCEPT ![c] = NoRequest]
        /\ UNCHANGED <<users, mods, comments, nextModId, session, cookies,
                       got_first_request>>
        /\ IF ins.ok
           THEN /\ records' = ins.records
                /\ nextRecordId' = nextRecordId + 1
                /\ resp' = Response("get_mod", c, pending[c].user_id, pending[c].arg, "page",
                                    "Mod successfully added!", "", "mod.html", 0)
           ELSE /\ UNCHANGED <<records, nextRecordId>>
                /\ resp' = Response("get_mod", c, pending[c].user_id, pending[c].arg, "page",
                                    "This mod is already in your records.", "", "mod.html",
                                    0)

\* GET/POST /records/<record_id>/edit
edit_record(c, record_id, user_review, valid) ==
    LET sess == SessionAfterHooks(c)
        g == global_user(sess)
        record == RecordById(records, record_id)
    IN  /\ Idle(c)
        /\ got_first_request' = TRUE
        /\ session' = [session EXCEPT ![c] = sess]
        /\ UNCHANGED <<users, mods, comments, nextModId, nextRecordId, pending, cookies>>
        /\ IF g = 0
           THEN /\ resp' = Response("edit_record", c, g, record_id,
                                    "redirect", "Unauthorized access.",
                                    "", "/records", record_id)
                /\ UNCHANGED records
           ELSE IF record.id = 0
           THEN /\ resp' = Response("edit_record", c, g, record_id,
                                    "error", "", "404", "", record_id)
                /\ UNCHANGED records
           ELSE IF valid
           THEN /\ records' = (records \ {record})
                                \cup {[record EXCEPT !.user_review = user_review]}
                /\ resp' = Response("edit_record", c, g, record_id,
                                    "redirect", "", "", "/records",
                                    record_id)
           ELSE /\ resp' = Response("edit_record", c, g, record_id,
                                    "page", "", "", "record_edit.html",
                                    record_id)
                /\ UNCHANGED records

\* POST /records/<record_id>
delete_record(c, record_id) ==
    LET sess == SessionAfterHooks(c)
        g == global_user(sess)
        record == RecordById(records, record_id)
        mod_id == record_mod_id(records, record_id)
    IN  /\ Idle(c)
        /\ got_first_request' = TRUE
        /\ session' = [session EXCEPT ![c] = sess]
        /\ UNCHANGED <<users, mods, comments, nextModId, nextRecordId, pending, cookies>>
        /\ IF record.id = 0
           \* .first() is None: reading .mod_id raises AttributeError
           THEN /\ resp' = Response("delete_record", c, g, record_id, "error", "", "500", "", 0)
                /\ UNCHANGED records
           ELSE IF g # 0
           THEN /\ records' = {r \in records : r.id # record_id}
                /\ resp' = Response("delete_record", c, g, record_id, "redirect",
                                    "Record successfully deleted.", "", "/mods", mod_id)
           ELSE /\ UNCHANGED records
                /\ resp' = Response("delete_record", c, g, record_id, "redirect",
                                    "Unauthorized access.", "", "/mods", mod_id)

\* --------------------------------------------------------------- Comments

\* POST /api/comments/add
add_comment(c, target_user_id, text) ==
    LET sess == SessionAfterHooks(c)
        g == global_user(sess)
    IN  /\ Idle(c)
        /\ got_first_request' = TRUE
        /\ session' = [session EXCEPT ![c] = sess]
        /\ UNCHANGED <<users, mods, records, nextModId, nextRecordId, pending, cookies>>
        /\ IF g # 0
           THEN /\ Len(comments) < MaxComments
                /\ comments' = Append(comments, [user_id |-> g,
                                                 target_user_id |-> target_user_id,
                                                 text |-> text])
                /\ resp' = Response("add_comment", c, g, target_user_id, "json", "", "", "",
                                    Len(comments) + 1)
           ELSE /\ UNCHANGED comments
                /\ resp' = Response("add_comment", c, g, target_user_id,
                                    "json", "", "Unauthorized access.",
                                    "", 0)

\* ------------------------------------------------------------ environment

\* The 'user' cookie is plain client-side state: a request may carry any value.
client_sets_cookie(c, username) ==
    /\ Idle(c)
    /\ cookies' = [cookies EXCEPT ![c] = DictSet(cookies[c], "user", username)]
    /\ UNCHANGED <<db, session, got_first_request, pending, resp>>

\* The session cookie is signed: a client cannot forge it, but can lose it.
client_drops_session(c) ==
    /\ Idle(c)
    /\ session[c] # EmptyDict
    /\ session' = [session EXCEPT ![c] = EmptyDict]
    /\ UNCHANGED <<db, cookies, got_first_request, pending, resp>>

\* The server process is started again: before_first_request is armed anew.
restart ==
    /\ got_first_request
    /\ \A c \in Clients : Idle(c)
    /\ got_first_request' = FALSE
    /\ UNCHANGED <<db, session, cookies, pending, resp>>

\* ------------------------------------------------------------ specifications

AuthNext ==
    \/ \E c \in Clients, n \in Usernames, e \in RegisterEmails, p \in Passwords,
          i \in RegisterImageUrls, v \in BOOLEAN : register(c, n, e, p, i, v)
    \/ \E c \in Clients, n \in Usernames, p \in LoginPasswords, v \in BOOLEAN :
          login(c, n, p, v)
    \/ \E c \in Clients : logout(c)
    \/ \E c \in Clients : login_status(c)

DataNext ==
    \/ \E c \in Clients, k \in 1..Len(ModJson) : add_mod(c, k)
    \/ \E c \in Clients : add_mod_commit(c)
    \/ \E c \in Clients, m \in ModIds : delete_mod(c, m)
    \/ \E c \in Clients, m \in ModIds : add_record(c, m)
    \/ \E c \in Clients : add_record_commit(c)
    \/ \E c \in Clients, m \in ModIds, post \in BOOLEAN : get_mod(c, m, post)
    \/ \E c \in Clients : get_mod_commit(c)
    \/ \E c \in Clients, r \in RecordIds, t \in Reviews, v \in BOOLEAN :
          edit_record(c, r, t, v)
    \/ \E c \in Clients, r \in RecordIds : delete_record(c, r)
    \/ \E c \in Clients, u \in CommentTargets, t \in CommentTexts : add_comment(c, u, t)

Next ==
    \/ AuthNext
    \/ DataNext
    \/ \E c \in Clients, u \in UserIds, e \in EditEmails, i \in ImageUrls, v \in BOOLEAN :
          edit_user(c, u, e, i, v)
    \/ \E c \in Clients, n \in Usernames : client_sets_cookie(c, n)
    \/ \E c \in Clients : client_drops_session(c)
    \/ restart

Spec == Init /\ [][Next]_vars

\* The authentication layer alone, with what a client may do to its cookies.
SessionNext ==
    \/ AuthNext
    \/ \E c \in Clients, n \in Usernames : client_sets_cookie(c, n)
    \/ \E c \in Clients : client_drops_session(c)
    \/ restart

SessionSpec == Init /\ [][SessionNext]_vars

\* Browsers that keep exactly the cookies the server sets.
BrowserNext ==
    \/ AuthNext
    \/ \E c \in Clients, u \in CommentTargets, t \in CommentTexts : add_comment(c, u, t)
    \/ restart

BrowserSpec == Init /\ [][BrowserNext]_vars

ProfileNext ==
    \/ AuthNext
    \/ \E c \in Clients, u \in UserIds, e \in EditEmails, i \in ImageUrls, v \in BOOLEAN :
          edit_user(c, u, e, i, v)

ProfileSpec == Init /\ [][ProfileNext]_vars

\* Accounts as the catalogue needs them: well-formed registrations and logins.
AccountNext ==
    \/ \E c \in Clients, n \in Usernames, e \in RegisterEmails, p \in Passwords,
          i \in RegisterImageUrls : register(c, n, e, p, i, TRUE)
    \/ \E c \in Clients, n \in Usernames, p \in Passwords : login(c, n, p, TRUE)
    \/ \E c \in Clients : logout(c)

\* No import is between its query and its commit.
NoImportPending == \A c \in Clients : pending[c].op # "add_mod"

\* Imports and deletions of Mods, the requests served one at a time.
ImportNext ==
    \/ \E c \in Clients : add_mod_commit(c)
    \/ NoImportPending /\ AccountNext
    \/ NoImportPending /\ \E c \in Clients, k \in 1..Len(ModJson) : add_mod(c, k)
    \/ NoImportPending /\ \E c \in Clients, m \in ModIds : delete_mod(c, m)

ImportSpec == Init /\ [][ImportNext]_vars

\* Concurrent requests on Records: an attach may be overtaken, between the
\* construction of its row and its commit, by any other request. Imports are
\* served one at a time.
AttachNext ==
    \/ \E c \in Clients : add_mod_commit(c)
    \/ NoImportPending /\ \E c \in Clients, n \in Usernames, e \in RegisterEmails,
                             p \in Passwords, i \in RegisterImageUrls :
                              register(c, n, e, p, i, TRUE)
    \/ NoImportPending /\ \E c \in Clients, n \in Usernames, p \in Passwords :
                              login(c, n, p, TRUE)
    \/ NoImportPending /\ \E c \in Clients, k \in 1..Len(ModJson) : add_mod(c, k)
    \/ NoImportPending /\ \E c \in Clients, m \in ModIds : add_record(c, m)
    \/ NoImportPending /\ \E c \in Clients : add_record_commit(c)
    \/ NoImportPending /\ \E c \in Clients, m \in ModIds : get_mod(c, m, TRUE)
    \/ NoImportPending /\ \E c \in Clients : get_mod_commit(c)
    \/ NoImportPending /\ \E c \in Clients, r \in RecordIds, t \in Reviews :
                              edit_record(c, r, t, TRUE)
    \/ NoImportPending /\ \E c \in Clients, r \in RecordIds : delete_record(c, r)

AttachSpec == Init /\ [][AttachNext]_vars

\* Every handler of the catalogue, for one client and one account: the
\* client's requests are served one after the other.
CatalogNext ==
    \/ \E c \in Visitor, n \in Member, e \in RegisterEmails, p \in Passwords,
          i \in RegisterImageUrls : register(c, n, e, p, i, TRUE)
    \/ \E c \in Visitor, n \in Member, p \in Passwords : login(c, n, p, TRUE)
    \/ \E c \in Visitor : logout(c)
    \/ \E c \in Visitor, k \in 1..Len(ModJson) : add_mod(c, k)
    \/ \E c \in Visitor : add_mod_commit(c)
    \/ \E c \in Visitor, m \in ModIds : delete_mod(c, m)
    \/ \E c \in Visitor, m \in ModIds : add_record(c, m)
    \/ \E c \in Visitor : add_record_commit(c)
    \/ \E c \in Visitor, m \in ModIds : get_mod(c, m, TRUE)
    \/ \E c \in Visitor : get_mod_commit(c)
    \/ \E c \in Visitor, r \in RecordIds, t \in Reviews, v \in BOOLEAN :
          edit_record(c, r, t, v)
    \/ \E c \in Visitor, r \in RecordIds : delete_record(c, r)
    \/ \E c \in Visitor, u \in CommentTargets, t \in CommentTexts : add_comment(c, u, t)

CatalogSpec == Init /\ [][CatalogNext]_vars

\* ------------------------------------------------------------------ claims

\* g.user of a request by client c, as the hooks resolve it
Identity(c) == global_user(SessionAfterHooks(c))

\* C1: when a request authenticated as user a posts an edit of another user
\* b's profile, it is refused with the Unauthorized notice and b's row (email,
\* avatar URL) is after the request what it was before, whatever the form holds.
C1_EditOfAnotherProfileIsRefused ==
    [][\A c \in Clients, b \in UserIds, e \in EditEmails, i \in ImageUrls, v \in BOOLEAN :
          (/\ edit_user(c, b, e, i, v)
           /\ Identity(c) # 0
           /\ Identity(c) # b
           /\ UserById(users, b) # 0)
          => /\ resp'.flash = "Unauthorized access."
             /\ users'[b].email = users[b].email
             /\ users'[b].image_url = users[b].image_url]_vars

\* The identity a request by client c should resolve to: the session binding
\* when there is one, else the user the 'user' cookie names, else nobody.
ResolvedIdentity(c) ==
    IF CURR_USER_KEY \in DOMAIN session[c]
    THEN UserById(users, session[c][CURR_USER_KEY])
    ELSE IF "user" \in DOMAIN cookies[c]
    THEN UserByName(users, cookies[c]["user"])
    ELSE 0

\* C7: every request, the first this process handles or a later one, runs as
\* the user of its session binding, else as the user its 'user' cookie names
\* (an implicit re-login), and is anonymous only without both.
C7_IdentityResolvedOnEveryRequest ==
    [][\A c \in Clients :
          (\/ login_status(c)
           \/ logout(c)
           \/ \E n \in Usernames, p \in LoginPasswords, v \in BOOLEAN : login(c, n, p, v)
           \/ \E n \in Usernames, e \in RegisterEmails, p \in Passwords,
                 i \in RegisterImageUrls, v \in BOOLEAN : register(c, n, e, p, i, v))
          => resp'.g_user = ResolvedIdentity(c)]_vars

\* A request by client c to one of the gated mutating handlers.
GatedRequest(c) ==
    \/ \E k \in 1..Len(ModJson) : add_mod(c, k)
    \/ \E m \in ModIds : delete_mod(c, m)
    \/ \E m \in ModIds : add_record(c, m)
    \/ \E m \in ModIds : get_mod(c, m, TRUE)
    \/ \E r \in RecordIds, t \in Reviews, v \in BOOLEAN : edit_record(c, r, t, v)
    \/ \E r \in RecordIds : delete_record(c, r)
    \/ \E u \in CommentTargets, t \in CommentTexts : add_comment(c, u, t)

\* What each handler answers when it turns an anonymous request away: the JSON
\* handlers a status, edit and delete record a flashed notice; delete mod and
\* POST /mods/<id> have no notice, only the plain redirect or page.
Unauthorized(r) ==
    /\ r.kind # "error"
    /\ CASE r.op = "add_mod" -> r.status = "Unauthorized access."
         [] r.op = "add_record" -> r.status = "Not logged in."
         [] r.op = "add_comment" -> r.status = "Unauthorized access."
         [] r.op = "edit_record" -> r.flash = "Unauthorized access."
         [] r.op = "delete_record" -> r.flash = "Unauthorized access."
         [] r.op = "delete_mod" -> r.kind = "redirect" /\ r.flash = ""
         [] r.op = "get_mod" -> r.kind = "page" /\ r.flash = ""
         [] OTHER -> FALSE

\* C5: a gated mutating request (import mod, delete mod, attach record, edit
\* record, delete record, add comment) without an authenticated identity is
\* answered Unauthorized and leaves every table, and every row, as it was.
C5_AnonymousGatedRequestIsRefused ==
    [][\A c \in Clients :
          (GatedRequest(c) /\ Identity(c) = 0)
          => (Unauthorized(resp') /\ UNCHANGED db /\ UNCHANGED pending)]_vars

\* The frame half of C5 alone: whatever an anonymous gated request is answered,
\* it writes nothing.
AnonymousGatedRequestWritesNothing ==
    [][\A c \in Clients : (GatedRequest(c) /\ Identity(c) = 0) => UNCHANGED db]_vars

\* C6: every Record's user_id names an existing User and its mod_id an
\* existing Mod.
C6_RecordsReferenceExistingRows ==
    \A r \in records : UserById(users, r.user_id) # 0 /\ ModExists(mods, r.mod_id)

\* At most one Record for each (user, mod) pair.
RecordPairsUnique ==
    \A r1, r2 \in records :
        (r1.user_id = r2.user_id /\ r1.mod_id = r2.mod_id) => r1 = r2

HasRecord(rs, user_id, mod_id) ==
    \E r \in rs : r.user_id = user_id /\ r.mod_id = mod_id

\* C2: in every state reached by attaches (POST /api/add_record/<mod_id> and
\* POST /mods/<id>), record edits and record deletes, interleaved in any way,
\* there is at most one Record for each (user, mod) pair; an attach whose
\* pair has a Record when it commits is answered with the conflict (status
\* "Already exists.", or the notice "This mod is already in your records.")
\* and leaves the Records as they were.
C2_OneRecordPerUserAndMod ==
    /\ []RecordPairsUnique
    /\ [][\A c \in Clients :
             /\ (add_record_commit(c)
                 /\ HasRecord(records, pending[c].user_id, pending[c].arg))
                => (records' = records /\ resp'.status = "Already exists.")
             /\ (get_mod_commit(c)
                 /\ HasRecord(records, pending[c].user_id, pending[c].arg))
                => (records' = records
                    /\ resp'.flash = "This mod is already in your records.")]_vars

\* Two attaches of one pair were in flight together: one has committed its
\* Record, the other has been answered with the conflict.
C2_Witness ==
    /\ resp.op = "add_record"
    /\ resp.status = "Already exists."
    /\ HasRecord(records, resp.g_user, resp.arg)
    /\ ModExists(mods, resp.arg)

\* The race itself: two attaches of one (user, mod) pair in flight together.
RacingAttaches ==
    \E c, d \in Clients :
        /\ c # d
        /\ pending[c].op \in {"add_record", "get_mod"}
        /\ pending[d].op \in {"add_record", "get_mod"}
        /\ pending[c].user_id = pending[d].user_id
        /\ pending[c].arg = pending[d].arg
        /\ ModExists(mods, pending[c].arg)
        /\ ~HasRecord(records, pending[c].user_id, pending[c].arg)

\* C9: a delete of an existing Record r by an authenticated caller removes r,
\* a delete by an anonymous caller leaves it; both redirect to /mods/<m>, m
\* being the mod id r held before the request.
C9_DeleteRecordRedirectsToItsMod ==
    [][\A c \in Clients, r \in RecordIds :
          (/\ RecordById(records, r).id # 0
           /\ resp'.op = "delete_record"
           /\ delete_record(c, r))
          => /\ resp'.kind = "redirect"
             /\ resp'.location = "/mods"
             /\ resp'.id = RecordById(records, r).mod_id
             /\ IF Identity(c) # 0
                THEN records' = records \ {RecordById(records, r)}
                ELSE records' = records]_vars

\* An authenticated delete has removed the Record and redirected to its Mod.
C9_Witness ==
    /\ resp.op = "delete_record"
    /\ resp.g_user # 0
    /\ resp.kind = "redirect"
    /\ resp.location = "/mods"
    /\ resp.id \in ModIds
    /\ RecordById(records, resp.arg).id = 0

\* At most one Mod for each archive file identifier.
FileIdsUnique ==
    \A m1, m2 \in mods : m1.file_id = m2.file_id => m1 = m2

\* C3: imports by authenticated callers, one request after the other: there is
\* never more than one Mod with a given file identifier; an import that finds
\* no Mod with its identifier creates it, which leaves exactly one; a Mod stays
\* until a delete; and an import made while a Mod with its identifier exists is
\* answered "Already pulled." with that Mod's id and creates nothing.
C3_ImportIsIdempotent ==
    /\ []FileIdsUnique
    /\ [][\A c \in Clients, k \in 1..Len(ModJson) :
             (/\ Identity(c) # 0
              /\ ModByFileId(mods, ModJson[k].id) # 0
              /\ add_mod(c, k))
             => /\ resp'.status = "Already pulled."
                /\ resp'.id = ModByFileId(mods, ModJson[k].id)
                /\ UNCHANGED <<mods, nextModId, pending>>]_vars
    /\ [][\A c \in Clients :
             add_mod_commit(c)
             => /\ resp'.status = "Pulled!"
                /\ ModByFileId(mods, resp'.arg) = 0
                /\ ModByFileId(mods', resp'.arg) = resp'.id
                /\ Cardinality({m \in mods' : m.file_id = resp'.arg}) = 1]_vars
    /\ [][(\E c \in Clients, m \in ModIds : delete_mod(c, m)) \/ mods \subseteq mods']_vars

\* A second import of an identifier has been answered with the id of the Mod
\* the first one created.
C3_Witness ==
    /\ resp.op = "add_mod"
    /\ resp.status = "Already pulled."
    /\ resp.g_user # 0
    /\ \E m \in mods : m.id = resp.id /\ m.file_id = resp.arg

\* At most one User for each username.
UsernamesUnique ==
    \A i, j \in 1..Len(users) : users[i].username = users[j].username => i = j

\* What a registration does for a username: the first creates the User, logs
\* the client in and sets both cookies; a later one is answered "Username
\* already taken", creates nothing, binds no session and sets no cookie.
RegistrationOutcome(c, n) ==
    IF UserByName(users, n) = 0
    THEN /\ Len(users') = Len(users) + 1
         /\ SubSeq(users', 1, Len(users)) = users
         /\ users'[Len(users')].username = n
         /\ resp'.kind = "redirect"
         /\ CURR_USER_KEY \in DOMAIN session'[c]
         /\ session'[c][CURR_USER_KEY] = Len(users')
         /\ "user" \in DOMAIN cookies'[c]
         /\ cookies'[c]["user"] = n
         /\ "password" \in DOMAIN cookies'[c]
    ELSE /\ users' = users
         /\ resp'.flash = "Username already taken"
         /\ CURR_USER_KEY \in DOMAIN session'[c] => session'[c] = session[c]
         /\ cookies'[c] = cookies[c]

\* C4 as stated: of the registrations with a username n the first succeeds
\* and creates one User; every later one fails with the conflict, creates no
\* User, binds no session and sets no cookie; never two Users share a username.
C4_RegisterOncePerUsername ==
    /\ []UsernamesUnique
    /\ [][\A c \in Clients, n \in Usernames, e \in RegisterEmails, p \in Passwords,
             i \in RegisterImageUrls :
             (resp'.op = "register" /\ register(c, n, e, p, i, TRUE))
             => RegistrationOutcome(c, n)]_vars

\* C4 amended: the same, of the registrations sent by a client that carries no
\* 'user' cookie; a client that carries one is redirected to /search and
\* nothing is created.
C4_RegisterOncePerUsernameWithoutCookie ==
    /\ []UsernamesUnique
    /\ [][\A c \in Clients, n \in Usernames, e \in RegisterEmails, p \in Passwords,
             i \in RegisterImageUrls :
             (resp'.op = "register" /\ register(c, n, e, p, i, TRUE))
             => IF "user" \in DOMAIN cookies[c]
                THEN /\ users' = users
                     /\ cookies' = cookies
                     /\ resp'.kind = "redirect"
                     /\ resp'.location = "/search"
                     /\ resp'.id = 0
                ELSE RegistrationOutcome(c, n)]_vars

\* A registration with a taken username has just been turned away, and the
\* username still has its one User.
C4_Witness ==
    /\ resp.op = "register"
    /\ resp.flash = "Username already taken"
    /\ Len(users) >= 1
    /\ "user" \notin DOMAIN cookies[resp.client]
    /\ CURR_USER_KEY \notin DOMAIN session[resp.client]

\* Client c holds nothing that logs it in.
LoggedOut(c) ==
    /\ CURR_USER_KEY \notin DOMAIN session[c]
    /\ "user" \notin DOMAIN cookies[c]
    /\ "password" \notin DOMAIN cookies[c]

\* C8: a logout clears the client's session binding and removes both cookies;
\* from then on, until a login or registration of that client succeeds, the
\* client stays logged out whatever happens, login_status answers "False" and
\* a gated request (add comment) is turned away.
C8_LogoutUntilNextLogin ==
    /\ [][\A c \in Clients : (resp'.op = "logout" /\ logout(c)) => LoggedOut(c)']_vars
    /\ [][\A c \in Clients :
             (LoggedOut(c) /\ ~LoggedOut(c)')
             => /\ resp'.op \in {"login", "register"}
                /\ resp'.client = c
                /\ resp'.kind = "redirect"
                /\ resp'.id # 0]_vars
    /\ [][\A c \in Clients :
             (LoggedOut(c) /\ resp'.op = "login_status" /\ login_status(c))
             => (resp'.g_user = 0 /\ resp'.status = "False")]_vars
    /\ [][\A c \in Clients, u \in CommentTargets, t \in CommentTexts :
             (LoggedOut(c) /\ resp'.op = "add_comment" /\ add_comment(c, u, t))
             => (resp'.status = "Unauthorized access." /\ comments' = comments)]_vars

\* A client that was logged in as a user has just logged out.
C8_Witness ==
    /\ resp.op = "logout"
    /\ resp.g_user # 0
    /\ LoggedOut(resp.client)

\* The 'user' cookie and the session binding of a client, when it has both,
\* name the same user.
CookieMatchesSession ==
    \A c \in Clients :
        ("user" \in DOMAIN cookies[c] /\ CURR_USER_KEY \in DOMAIN session[c])
        => UserByName(users, cookies[c]["user"]) = session[c][CURR_USER_KEY]

\* What a login with valid credentials for user u leaves behind.
LoggedInAs(c, u) ==
    /\ CURR_USER_KEY \in DOMAIN session[c]
    /\ session[c][CURR_USER_KEY] = u
    /\ "user" \in DOMAIN cookies[c]
    /\ cookies[c]["user"] = users[u].username

\* C10 as stated: a POST /login with valid credentials for user u leaves the
\* client's session bound to u and its 'user' cookie set to u, also when the
\* client is logged in as somebody else or carries a 'user' cookie; and cookie
\* and session never name different users.
C10_LoginBindsSessionAndCookie ==
    /\ []CookieMatchesSession
    /\ [][\A c \in Clients, n \in Usernames, p \in LoginPasswords :
             (/\ UsersAuthenticate(users, n, p) # 0
              /\ resp'.op = "login"
              /\ login(c, n, p, TRUE))
             => LoggedInAs(c, UsersAuthenticate(users, n, p))']_vars

\* C10 amended: the login binds session and cookie when the client carries no
\* 'user' cookie; a client that carries one is redirected to /search with its
\* session and cookies as the hooks left them; and cookie and session never
\* name different users.
C10_LoginBindsSessionAndCookieWithoutCookie ==
    /\ []CookieMatchesSession
    /\ [][\A c \in Clients, n \in Usernames, p \in LoginPasswords :
             (/\ UsersAuthenticate(users, n, p) # 0
              /\ resp'.op = "login"
              /\ login(c, n, p, TRUE))
             => IF "user" \in DOMAIN cookies[c]
                THEN /\ cookies'[c] = cookies[c]
                     /\ session'[c] = SessionAfterHooks(c)
                     /\ resp'.kind = "redirect"
                     /\ resp'.location = "/search"
                     /\ resp'.id = 0
                ELSE LoggedInAs(c, UsersAuthenticate(users, n, p))']_vars

\* A login has succeeded for a user that another client is logged in as.
C10_Witness ==
    /\ resp.op = "login"
    /\ resp.id # 0
    /\ LoggedInAs(resp.client, resp.id)
    /\ Len(users) = 2
    /\ \E c \in Clients : c # resp.client /\ LoggedInAs(c, resp.id)

====
